---- MODULE Spec2Model ----
(***************************************************************************)
(* Model of src/video_analysis_agent.py: the Hercules log parser, the      *)
(* analysis (reconciliation) node, the reporting node and the driver       *)
(* analyze_log_file.  Texts are sequences of one-character strings, so     *)
(* that str.strip, str.split, re.sub, startswith/endswith, json.dumps and  *)
(* json.loads are computed character by character.                         *)
(***************************************************************************)
EXTENDS Integers, Sequences, FiniteSets, TLC

VARIABLES pc, model_provider, raw_logs, parsed_plan, parsed_evidence,
          prompt, response, analysis_report, final_markdown,
          returned, out_file, llm_calls, trace, error, warning

vars == <<pc, model_provider, raw_logs, parsed_plan, parsed_evidence,
          prompt, response, analysis_report, final_markdown,
          returned, out_file, llm_calls, trace, error, warning>>

(***************************************************************************)
(* Bounds of the model.                                                    *)
(***************************************************************************)
\* longest event sequence of an input document
MaxEvents == 2
\* longest classification list the model's JSON answer holds
MaxItems == 1

\* per-item cap on an evidence description inside the prompt
EvidenceCap == 1500

(***************************************************************************)
(* Text primitives.                                                        *)
(***************************************************************************)
Whitespace == {" ", "\n", "\t", "\r"}
Digits == {"0", "1", "2", "3", "4", "5", "6", "7", "8", "9"}

Min(a, b) == IF a < b THEN a ELSE b

Tail_n(s, n) == SubSeq(s, n + 1, Len(s))

\* str.lstrip() / str.rstrip() / str.strip()
RECURSIVE LStrip(_)
LStrip(s) == IF s # <<>> /\ Head(s) \in Whitespace THEN LStrip(Tail(s)) ELSE s

RECURSIVE RStrip(_)
RStrip(s) ==
    IF s # <<>> /\ s[Len(s)] \in Whitespace
    THEN RStrip(SubSeq(s, 1, Len(s) - 1)) ELSE s

Strip(s) == RStrip(LStrip(s))

StartsWith(s, p) == Len(s) >= Len(p) /\ SubSeq(s, 1, Len(p)) = p

EndsWith(s, p) ==
    Len(s) >= Len(p) /\ SubSeq(s, Len(s) - Len(p) + 1, Len(s)) = p

\* str.split('\n')
RECURSIVE SplitLines(_)
SplitLines(s) ==
    IF \A i \in 1..Len(s) : s[i] # "\n"
    THEN <<s>>
    ELSE LET i == CHOOSE k \in 1..Len(s) :
                    s[k] = "\n" /\ \A j \in 1..(k - 1) : s[j] # "\n"
         IN  <<SubSeq(s, 1, i - 1)>> \o SplitLines(Tail_n(s, i))

\* str.replace(a, b) for one-character a
RECURSIVE Replace(_, _, _)
Replace(s, a, b) ==
    IF s = <<>> THEN <<>>
    ELSE <<(IF Head(s) = a THEN b ELSE Head(s))>> \o Replace(Tail(s), a, b)

Upper == <<"A","B","C","D","E","F","G","H","I","J","K","L","M",
           "N","O","P","Q","R","S","T","U","V","W","X","Y","Z">>
Lower == <<"a","b","c","d","e","f","g","h","i","j","k","l","m",
           "n","o","p","q","r","s","t","u","v","w","x","y","z">>

LowerChar(c) ==
    IF \E i \in 1..26 : Upper[i] = c
    THEN Lower[CHOOSE i \in 1..26 : Upper[i] = c] ELSE c

\* str.lower()
ToLower(s) == [i \in 1..Len(s) |-> LowerChar(s[i])]

\* sep.join(ss)
RECURSIVE Join(_, _)
Join(ss, sep) ==
    IF ss = <<>> THEN <<>>
    ELSE IF Len(ss) = 1 THEN ss[1]
    ELSE ss[1] \o sep \o Join(Tail(ss), sep)

(***************************************************************************)
(* Results of a call: a value, or the exception it raised.                 *)
(***************************************************************************)
Ok(v) == [exc |-> "", val |-> v]
Raise(e) == [exc |-> e, val |-> <<>>]

(***************************************************************************)
(* Plan-line normalisation: re.sub(r'^\d+\.\s*', '', line).strip()         *)
(***************************************************************************)
RECURSIVE DigitRun(_)
DigitRun(s) == IF s # <<>> /\ Head(s) \in Digits THEN 1 + DigitRun(Tail(s)) ELSE 0

\* re.sub(r'^\d+\.\s*', '', line): the pattern is anchored at the first
\* character of the line, needs one digit at least, then a period.
SubOrdinal(line) ==
    LET d == DigitRun(line) IN
    IF d >= 1 /\ Len(line) > d /\ line[d + 1] = "."
    THEN LStrip(Tail_n(line, d + 1))
    ELSE line

NormaliseLine(line) == Strip(SubOrdinal(line))

\* [normalise(line) for line in plan_text.split('\n') if line.strip()]
RECURSIVE NormaliseLines(_)
NormaliseLines(ls) ==
    IF ls = <<>> THEN <<>>
    ELSE (IF Strip(Head(ls)) # <<>> THEN <<NormaliseLine(Head(ls))>> ELSE <<>>)
         \o NormaliseLines(Tail(ls))

PlanSteps(plan_text) == NormaliseLines(SplitLines(plan_text))

(***************************************************************************)
(* Input documents.  An event is a JSON value of the target sequence: a    *)
(* mapping with optional `name` and `content` keys, or a value of another  *)
(* shape.  A content is a string, or a mapping with one key (`plan` or     *)
(* `error`) holding a string.                                              *)
(***************************************************************************)
NoContent == [t |-> "none", key |-> "", text |-> <<>>]
StrContent(text) == [t |-> "str", key |-> "", text |-> text]
DictContent(key, text) == [t |-> "dict", key |-> key, text |-> text]

DictEvent(hasName, name, hasContent, content) ==
    [shape |-> "dict", hasName |-> hasName, name |-> name,
     hasContent |-> hasContent, content |-> content]
OtherEvent(shape) ==
    [shape |-> shape, hasName |-> FALSE, name |-> "",
     hasContent |-> FALSE, content |-> NoContent]

PlanTextA == <<"1", ".", " ", "O", "p", "\n", " ", "2", ".", " ", "G", "o", "\n">>
TextLoaded == <<"o", "k">>
TextError == <<"n", "o">>

EventPool ==
    { DictEvent(TRUE, "planner_agent", TRUE, DictContent("plan", PlanTextA)),
      DictEvent(TRUE, "user", TRUE, StrContent(TextLoaded)),
      DictEvent(TRUE, "user", TRUE, DictContent("error", TextError)),
      DictEvent(TRUE, "user", FALSE, NoContent),
      DictEvent(FALSE, "", TRUE, StrContent(TextLoaded)),
      OtherEvent("str") }

RECURSIVE SeqsUpTo(_, _)
SeqsUpTo(S, n) ==
    IF n = 0 THEN {<<>>}
    ELSE LET shorter == SeqsUpTo(S, n - 1)
         IN  shorter \cup {Append(q, x) : q \in shorter, x \in S}

EventSeqs == SeqsUpTo(EventPool, MaxEvents)

ListDoc(events) == [t |-> "list", hasPlanner |-> FALSE, events |-> events]
StreamsDoc(events) == [t |-> "dict", hasPlanner |-> TRUE, events |-> events]
ScalarDoc(t) == [t |-> t, hasPlanner |-> FALSE, events |-> <<>>]

\* documents that are neither a mapping nor a sequence
OtherDocs == {ScalarDoc(t) : t \in {"str", "num", "bool", "null"}}

Docs ==
    {ListDoc(es) : es \in EventSeqs} \cup {StreamsDoc(es) : es \in EventSeqs}
        \cup {ScalarDoc("dict")} \cup OtherDocs

(***************************************************************************)
(* json.dumps of a one-key mapping with a string value, and str().         *)
(***************************************************************************)
EscapeChar(c) ==
    CASE c = "\n" -> <<"\\", "n">>
      [] c = "\t" -> <<"\\", "t">>
      [] c = "\r" -> <<"\\", "r">>
      [] c = "\"" -> <<"\\", "\"">>
      [] c = "\\" -> <<"\\", "\\">>
      [] OTHER -> <<c>>

RECURSIVE Escape(_)
Escape(s) == IF s = <<>> THEN <<>> ELSE EscapeChar(Head(s)) \o Escape(Tail(s))

Quote(s) == <<"\"">> \o Escape(s) \o <<"\"">>

KeyChars(k) ==
    CASE k = "plan" -> <<"p", "l", "a", "n">>
      [] k = "error" -> <<"e", "r", "r", "o", "r">>
      [] k = "step" -> <<"s", "t", "e", "p">>
      [] k = "status" -> <<"s", "t", "a", "t", "u", "s">>
      [] k = "reasoning" -> <<"r", "e", "a", "s", "o", "n", "i", "n", "g">>
      [] k = "evidence_snippet" -> <<"e", "v", "i", "d", "e", "n", "c", "e", "_",
                                     "s", "n", "i", "p", "p", "e", "t">>

Member(k, v) == Quote(KeyChars(k)) \o <<":", " ">> \o v

DumpsContent(content) ==
    <<"{">> \o Member(content.key, Quote(content.text)) \o <<"}">>

\* entry.get('content', '') followed by json.dumps / str
Describe(entry) ==
    IF ~entry.hasContent THEN <<>>
    ELSE IF entry.content.t = "dict" THEN DumpsContent(entry.content)
    ELSE entry.content.text

(***************************************************************************)
(* HerculesLogParser                                                       *)
(***************************************************************************)
\* the loop of extract_plan from position i on
RECURSIVE PlanScan(_, _)
PlanScan(target_logs, i) ==
    IF i > Len(target_logs) THEN Ok(<<>>)
    ELSE LET entry == target_logs[i] IN
         IF entry.shape # "dict" THEN Raise("AttributeError")
         ELSE IF entry.hasName /\ entry.name = "planner_agent"
                 /\ entry.hasContent /\ entry.content.t = "dict"
              THEN LET plan_text == IF entry.content.key = "plan"
                                    THEN entry.content.text ELSE <<>>
                   IN  IF plan_text # <<>>
                       THEN Ok(PlanSteps(plan_text))
                       ELSE PlanScan(target_logs, i + 1)
              ELSE PlanScan(target_logs, i + 1)

extract_plan(logs) ==
    IF logs.t = "dict" /\ logs.hasPlanner THEN PlanScan(logs.events, 1)
    ELSE IF logs.t = "list" THEN PlanScan(logs.events, 1)
    ELSE Ok(<<>>)

EvidenceRecord(i, entry) ==
    [id |-> i - 1, type |-> "observation", description |-> Describe(entry)]

\* the loop of extract_evidence from position i on, `evidence` so far
RECURSIVE EvidenceScan(_, _, _)
EvidenceScan(target_logs, i, evidence) ==
    IF i > Len(target_logs) THEN Ok(evidence)
    ELSE LET entry == target_logs[i] IN
         IF entry.shape # "dict" THEN Raise("AttributeError")
         ELSE IF entry.hasName /\ entry.name = "user"
              THEN EvidenceScan(target_logs, i + 1,
                                Append(evidence, EvidenceRecord(i, entry)))
              ELSE EvidenceScan(target_logs, i + 1, evidence)

\* as extract_evidence, but a document that is not a list is iterated as it is
extract_evidence_iterates(logs) ==
    IF logs.t = "dict" /\ logs.hasPlanner THEN EvidenceScan(logs.events, 1, <<>>)
    ELSE IF logs.t = "list" THEN EvidenceScan(logs.events, 1, <<>>)
    ELSE IF logs.t = "dict" THEN Raise("AttributeError")
    ELSE Raise("TypeError")

extract_evidence(logs) ==
    LET target_logs == IF logs.t = "dict" /\ logs.hasPlanner THEN logs.events
                       ELSE IF logs.t = "list" THEN logs.events ELSE <<>>
    IN  EvidenceScan(target_logs, 1, <<>>)

(***************************************************************************)
(* The answer of the model: JSON values as json.loads builds them.  An item of  *)
(* a classification list is a mapping holding some of the keys `step`,     *)
(* `status`, `evidence_snippet`, `reasoning`, or a value of another shape. *)
(***************************************************************************)
StrVal(text) == [t |-> "str", text |-> text]
NumVal(text) == [t |-> "num", text |-> text]

Item(has, step, status, reasoning) ==
    [shape |-> "dict", has |-> has, step |-> step, status |-> status,
     reasoning |-> reasoning]
NumItem == [shape |-> "num", has |-> {}, step |-> <<>>,
            status |-> StrVal(<<>>), reasoning |-> <<>>]

AllKeys == {"step", "status", "evidence_snippet", "reasoning"}

ItemPool ==
    { Item(AllKeys, <<"O", "p">>, StrVal(<<"O", "b", "s", "e", "r", "v", "e", "d">>),
           <<"a", "|", "b">>),
      Item(AllKeys, <<"G", "o">>, StrVal(<<"S", "K", "I", "P", "P", "E", "D">>),
           <<"x", "\n", "y">>),
      Item(AllKeys \ {"status"}, <<"O", "p">>, StrVal(<<>>), <<"a">>),
      Item(AllKeys, <<"O", "p">>, NumVal(<<"1">>), <<"a">>),
      NumItem }

ListValue(items) == [t |-> "list", items |-> items, text |-> <<>>]
ObjectValue(items) == [t |-> "dict", items |-> items, text |-> <<>>]
ScalarValue(t, text) == [t |-> t, items |-> <<>>, text |-> text]

JsonValues ==
    {ListValue(is) : is \in SeqsUpTo(ItemPool, MaxItems)}
        \cup {ObjectValue(<<>>)}
        \cup {ObjectValue(<<i>>) : i \in {j \in ItemPool : j.shape = "dict"}}
        \cup {ScalarValue("num", <<"7">>), ScalarValue("null", <<>>),
              ScalarValue("str", <<>>), ScalarValue("str", <<"h", "i">>)}

DumpsScalar(v) == IF v.t = "str" THEN Quote(v.text) ELSE v.text

DumpsItem(item) ==
    IF item.shape # "dict" THEN <<"7">>
    ELSE <<"{">> \o
         Join(  (IF "step" \in item.has
                 THEN <<Member("step", Quote(item.step))>> ELSE <<>>)
             \o (IF "status" \in item.has
                 THEN <<Member("status", DumpsScalar(item.status))>> ELSE <<>>)
             \o (IF "evidence_snippet" \in item.has
                 THEN <<Member("evidence_snippet", Quote(<<>>))>> ELSE <<>>)
             \o (IF "reasoning" \in item.has
                 THEN <<Member("reasoning", Quote(item.reasoning))>> ELSE <<>>),
             <<",", " ">>)
         \o <<"}">>

\* json.dumps of a value
Dumps(v) ==
    CASE v.t = "list" ->
            <<"[">> \o Join([i \in 1..Len(v.items) |-> DumpsItem(v.items[i])],
                            <<",", " ">>) \o <<"]">>
      [] v.t = "dict" ->
            IF v.items = <<>> THEN <<"{", "}">> ELSE DumpsItem(v.items[1])
      [] v.t = "null" -> <<"n", "u", "l", "l">>
      [] OTHER -> DumpsScalar(v)

\* every JSON text of the model with the value it denotes
Denotations == {<<Dumps(v), v>> : v \in JsonValues}

\* json.loads: surrounding JSON whitespace is accepted; the text between is
\* a JSON value exactly when it is the serialisation of one.
Loads(text) ==
    LET body == Strip(text) IN
    IF \E d \in Denotations : d[1] = body
    THEN Ok((CHOOSE d \in Denotations : d[1] = body)[2])
    ELSE Raise("JSONDecodeError")

(***************************************************************************)
(* Texts the model can answer with.                                        *)
(***************************************************************************)
\* the character U+0060, which the lexer of the language reserves
Backtick == "BACKTICK"
Fence == <<Backtick, Backtick, Backtick>>
FenceJson == Fence \o <<"j", "s", "o", "n">>
GarbageText == <<"n", "o", "|", "\n", "x">>

Wrappings ==
    { <<(<<>>), (<<>>)>>,
      <<(FenceJson \o <<"\n">>), (<<"\n">> \o Fence)>>,
      <<(Fence \o <<"\n">>), (<<"\n">> \o Fence)>>,
      <<(<<" ">>), (<<"\n">>)>> }

Bodies == {d[1] : d \in Denotations} \cup {GarbageText}

Responses == {w[1] \o b \o w[2] : w \in Wrappings, b \in Bodies}

\* what llm.invoke does: it returns a text, or it raises
InvokeFailure == <<"<", "r", "a", "i", "s", "e", "s", ">">>
ModelReplies == Responses \cup {InvokeFailure}

(***************************************************************************)
(* LLMFactory                                                              *)
(***************************************************************************)
Providers == {"openai", "gemini", "groq", "azure"}

\* as ModelProvider, but an unknown value falls back to the default provider
ModelProviderDefaulting(value) ==
    IF value \in {"openai", "gemini", "groq"} THEN Ok(value) ELSE Ok("openai")

\* ModelProvider(value): the Enum lookup by value
ModelProvider(value) ==
    IF value \in {"openai", "gemini", "groq"} THEN Ok(value) ELSE Raise("ValueError")

\* LLMFactory.create_llm; the constructor of the client raises without credentials
create_llm(provider, creds_ok) ==
    IF provider = "openai"
    THEN IF creds_ok THEN Ok([client |-> "ChatOpenAI", model |-> "gpt-4o"])
         ELSE Raise("ClientError")
    ELSE IF provider = "gemini"
    THEN IF creds_ok
         THEN Ok([client |-> "ChatGoogleGenerativeAI", model |-> "gemini-1.5-pro"])
         ELSE Raise("ClientError")
    ELSE IF provider = "groq"
    THEN IF creds_ok THEN Ok([client |-> "ChatGroq", model |-> "llama3-70b-8192"])
         ELSE Raise("ClientError")
    ELSE Raise("ValueError")

(***************************************************************************)
(* analysis_node: prompt, fence stripping, parse with fallback             *)
(***************************************************************************)
RECURSIVE IntChars(_)
IntChars(n) ==
    LET d == <<"0", "1", "2", "3", "4", "5", "6", "7", "8", "9">>[(n % 10) + 1]
    IN  IF n < 10 THEN <<d>> ELSE Append(IntChars(n \div 10), d)

\* f"[Log ID {e['id']}] {e['description'][:1500]}"
EvidenceLine(e) ==
    <<"[", "L", "o", "g", " ", "I", "D", " ">> \o IntChars(e.id) \o <<"]", " ">>
        \o SubSeq(e.description, 1, Min(Len(e.description), EvidenceCap))

BuildPrompt(plan, evidence) ==
    [plan |-> plan,
     evidence_text |->
        Join([i \in 1..Len(evidence) |-> EvidenceLine(evidence[i])], <<"\n", "\n">>)]

\* content = response.content.strip(); the two fence tests that follow
StripFences(text) ==
    LET c0 == Strip(text)
        c1 == IF StartsWith(c0, FenceJson) THEN Tail_n(c0, 7) ELSE c0
    IN  IF EndsWith(c1, Fence) THEN SubSeq(c1, 1, Len(c1) - 3) ELSE c1

ErrorStep == <<"E", "r", "r", "o", "r", " ", "p", "a", "r", "s", "i", "n", "g", " ",
               "L", "L", "M", " ", "o", "u", "t", "p", "u", "t">>
Deviation == <<"D", "e", "v", "i", "a", "t", "i", "o", "n">>

FallbackItem(content) ==
    Item({"step", "status", "reasoning", "evidence"}, ErrorStep,
         StrVal(Deviation), content)

\* as ParseResponse, but the fallback carries the text as the model returned it
ParseResponseRaw(text) ==
    LET content == StripFences(text)
        loaded == Loads(content)
    IN  IF loaded.exc = "" THEN loaded.val
        ELSE ListValue(<<FallbackItem(text)>>)

\* lines 160-167: the classification list built from the text of the model
ParseResponse(text) ==
    LET content == StripFences(text)
        loaded == Loads(content)
    IN  IF loaded.exc = "" THEN loaded.val
        ELSE ListValue(<<FallbackItem(content)>>)

(***************************************************************************)
(* reporting_node                                                          *)
(***************************************************************************)
ReportHeader ==
    <<"# Hercules Video Analysis Report", "\n", "\n",
      "| Step Description | Result | Notes/Evidence |", "\n",
      "| :--- | :--- | :--- |", "\n">>

StatusIcon(status) ==
    IF ToLower(status) = <<"s", "k", "i", "p", "p", "e", "d">> THEN "WARNING_SIGN"
    ELSE IF ToLower(status) = ToLower(Deviation) THEN "CROSS_MARK"
    ELSE "CHECK_MARK"

SafeReasoning(reasoning) == Replace(Replace(reasoning, "|", "-"), "\n", " ")

\* one iteration of the loop: the row appended, or the exception raised
RenderRow(item) ==
    IF item.shape # "dict" THEN Raise("TypeError")
    ELSE IF "status" \notin item.has THEN Raise("KeyError")
    ELSE IF item.status.t # "str" THEN Raise("AttributeError")
    ELSE IF "reasoning" \notin item.has THEN Raise("KeyError")
    ELSE IF "step" \notin item.has THEN Raise("KeyError")
    ELSE Ok(<<"|", " ">> \o item.step \o <<" ", "|", " ">>
            \o <<StatusIcon(item.status.text)>> \o <<" ", "*", "*">>
            \o item.status.text \o <<"*", "*", " ", "|", " ">>
            \o SafeReasoning(item.reasoning) \o <<" ", "|", "\n">>)

RECURSIVE RenderRows(_, _)
RenderRows(items, md) ==
    IF items = <<>> THEN Ok(md)
    ELSE LET row == RenderRow(Head(items)) IN
         IF row.exc # "" THEN row ELSE RenderRows(Tail(items), md \o row.val)

\* `for item in report`: a list yields its items; a mapping yields its keys
\* and a string its characters, which are strings, so that item['status']
\* raises; a number or null is not iterable.
Render(report) ==
    IF report.t = "list" THEN RenderRows(report.items, ReportHeader)
    ELSE IF report.t = "dict"
    THEN IF report.items = <<>> THEN Ok(ReportHeader) ELSE Raise("TypeError")
    ELSE IF report.t = "str"
    THEN IF report.text = <<>> THEN Ok(ReportHeader) ELSE Raise("TypeError")
    ELSE Raise("TypeError")

(***************************************************************************)
(* The run of analyze_log_file.  pc is the position of the run: the file   *)
(* read, the three nodes of the graph in the order of its edges            *)
(* (parser -> analyst -> reporter -> END), and the save to the output.     *)
(* trace lists the stages the run has entered so far.                      *)
(***************************************************************************)
NoDoc == ScalarDoc("unset")
NoReport == ScalarValue("unset", <<>>)
NoPrompt == [plan |-> <<>>, evidence_text |-> <<>>]
NoText == [has |-> FALSE, text |-> <<>>]
Text(t) == [has |-> TRUE, text |-> t]
NoError == [exc |-> "", at |-> ""]

Init ==
    /\ pc = "start"
    /\ model_provider \in Providers
    /\ raw_logs = NoDoc
    /\ parsed_plan = <<>>
    /\ parsed_evidence = <<>>
    /\ prompt = NoPrompt
    /\ response = NoText
    /\ analysis_report = NoReport
    /\ final_markdown = NoText
    /\ returned = NoText
    /\ out_file = NoText
    /\ llm_calls = 0
    /\ trace = <<>>
    /\ error = NoError
    /\ warning = FALSE

\* create_agent_graph: the entry point and the edges of the compiled graph
EntryPoint == "parser"

SuccessorSkipsAnalyst(node) ==
    CASE node = "parser" -> "reporter"
      [] node = "analyst" -> "reporter"
      [] node = "reporter" -> "END"

Successor(node) ==
    CASE node = "parser" -> "analyst"
      [] node = "analyst" -> "reporter"
      [] node = "reporter" -> "END"

\* an exception leaves the node, the graph and analyze_log_file
Fails(exc, at) ==
    /\ pc' = "failed"
    /\ error' = [exc |-> exc, at |-> at]

\* lines 209-210, the file is read and decoded
LoadFile ==
    /\ pc = "start"
    /\ \E doc \in Docs : raw_logs' = doc
    /\ pc' = EntryPoint
    /\ UNCHANGED <<model_provider, parsed_plan, parsed_evidence, prompt, response,
                   analysis_report, final_markdown, returned, out_file, llm_calls,
                   trace, error, warning>>

\* lines 209-210, open() or json.load raises
LoadFileFails ==
    /\ pc = "start"
    /\ Fails("FileReadError", "load")
    /\ UNCHANGED <<model_provider, raw_logs, parsed_plan, parsed_evidence, prompt,
                   response, analysis_report, final_markdown, returned, out_file,
                   llm_calls, trace, warning>>

parse_logs_node ==
    /\ pc = "parser"
    /\ trace' = Append(trace, "parser")
    /\ LET plan == extract_plan(raw_logs)
           evidence == IF plan.exc = "" THEN extract_evidence(raw_logs) ELSE plan
       IN  IF evidence.exc # ""
           THEN /\ Fails(evidence.exc, "parser")
                /\ UNCHANGED <<parsed_plan, parsed_evidence>>
           ELSE /\ parsed_plan' = plan.val
                /\ parsed_evidence' = evidence.val
                /\ pc' = Successor("parser")
                /\ UNCHANGED error
    /\ UNCHANGED <<model_provider, raw_logs, prompt, response, analysis_report,
                   final_markdown, returned, out_file, llm_calls, warning>>

analysis_node ==
    /\ pc = "analyst"
    /\ trace' = Append(trace, "analyst")
    /\ \E creds_ok \in BOOLEAN, reply \in ModelReplies :
         LET provider == ModelProvider(model_provider)
             llm == IF provider.exc = "" THEN create_llm(provider.val, creds_ok)
                    ELSE provider
         IN  IF llm.exc # ""
             THEN /\ Fails(llm.exc, "analyst")
                  /\ UNCHANGED <<prompt, response, analysis_report, llm_calls>>
             ELSE /\ prompt' = BuildPrompt(parsed_plan, parsed_evidence)
                  /\ llm_calls' = llm_calls + 1
                  /\ IF reply = InvokeFailure
                     THEN /\ Fails("InvokeError", "analyst")
                          /\ UNCHANGED <<response, analysis_report>>
                     ELSE /\ response' = Text(reply)
                          /\ analysis_report' = ParseResponse(reply)
                          /\ pc' = Successor("analyst")
                          /\ UNCHANGED error
    /\ UNCHANGED <<model_provider, raw_logs, parsed_plan, parsed_evidence,
                   final_markdown, returned, out_file, warning>>

reporting_node ==
    /\ pc = "reporter"
    /\ trace' = Append(trace, "reporter")
    /\ LET md == Render(analysis_report)
       IN  IF md.exc # ""
           THEN /\ Fails(md.exc, "reporter")
                /\ UNCHANGED final_markdown
           ELSE /\ final_markdown' = Text(md.val)
                /\ pc' = Successor("reporter")
                /\ UNCHANGED error
    /\ UNCHANGED <<model_provider, raw_logs, parsed_plan, parsed_evidence, prompt,
                   response, analysis_report, returned, out_file, llm_calls, warning>>

\* as save_to_file, but a failing write is not caught
save_to_file_propagates ==
    /\ pc = "END"
    /\ trace' = Append(trace, "persist")
    /\ \E write_ok \in BOOLEAN :
         IF write_ok
         THEN /\ out_file' = final_markdown
              /\ returned' = final_markdown
              /\ pc' = "done"
              /\ UNCHANGED error
         ELSE /\ Fails("OSError", "persist")
              /\ UNCHANGED <<out_file, returned>>
    /\ UNCHANGED <<model_provider, raw_logs, parsed_plan, parsed_evidence, prompt,
                   response, analysis_report, final_markdown, llm_calls, warning>>

\* lines 221-231: the write inside try/except Exception, then the return
save_to_file ==
    /\ pc = "END"
    /\ trace' = Append(trace, "persist")
    /\ \E write_ok \in BOOLEAN :
         IF write_ok
         THEN out_file' = final_markdown /\ UNCHANGED warning
         ELSE warning' = TRUE /\ UNCHANGED out_file
    /\ returned' = final_markdown
    /\ pc' = "done"
    /\ UNCHANGED <<model_provider, raw_logs, parsed_plan, parsed_evidence, prompt,
                   response, analysis_report, final_markdown, llm_calls, error>>

Next ==
    \/ LoadFile
    \/ LoadFileFails
    \/ parse_logs_node
    \/ analysis_node
    \/ reporting_node
    \/ save_to_file

Spec == Init /\ [][Next]_vars

(***************************************************************************)
(* Properties                                                              *)
(***************************************************************************)
Stages == <<"parser", "analyst", "reporter", "persist">>

Visited(stage) == \E i \in 1..Len(trace) : trace[i] = stage

IsPrefix(p, q) == Len(p) <= Len(q) /\ SubSeq(q, 1, Len(p)) = p

NonBlank(line) == line # <<>>

\* the lines of the table below its title, header and separator lines
DataRows(md) == SelectSeq(Tail_n(SplitLines(md), 4), NonBlank)

RowIsFor(row, step) == StartsWith(row, <<"|", " ">> \o step \o <<" ", "|", " ">>)

\* C1: once the report is rendered it has exactly one data row per step of
\* the parsed plan, and row i is the row of step i, whatever the model
\* answered.
C1_RowsFollowPlan ==
    final_markdown.has =>
        LET rows == DataRows(final_markdown.text) IN
        /\ Len(rows) = Len(parsed_plan)
        /\ \A i \in 1..Len(rows) : RowIsFor(rows[i], parsed_plan[i])

\* a run in which C1 is at stake: a plan of two steps, a report rendered
C1_Reached ==
    /\ final_markdown.has
    /\ Len(parsed_plan) = 2
    /\ Len(DataRows(final_markdown.text)) # 2

\* C2: once the model call has returned a text, no exception reaches the
\* caller: whatever the text is, the run does not fail.
C2_AnswerNeverRaises == response.has => pc # "failed"

\* a run that failed on the content of the answer
C2_Reached == response.has /\ pc = "failed" /\ error.at = "reporter"

Unfenced(text) ==
    LET t == Strip(text)
        headless == IF Len(t) >= 7 /\ SubSeq(t, 1, 7) = FenceJson
                    THEN SubSeq(t, 8, Len(t)) ELSE t
        n == Len(headless)
    IN  IF n >= 3 /\ SubSeq(headless, n - 2, n) = Fence
        THEN SubSeq(headless, 1, n - 3) ELSE headless

C4_UnsupportedProviderStops ==
    model_provider \notin {"openai", "gemini", "groq"} =>
        /\ llm_calls = 0
        /\ ~response.has
        /\ ~final_markdown.has
        /\ ~returned.has
        /\ ~out_file.has
        /\ ~Visited("reporter") /\ ~Visited("persist")
        /\ Visited("analyst") =>
              pc = "failed" /\ error = [exc |-> "ValueError", at |-> "analyst"]

\* the analysis node has run with an unsupported provider
C4_Reached ==
    /\ model_provider = "azure"
    /\ Visited("analyst")
    /\ pc = "failed"

\* C5: when the write of the output file fails after the report is
\* rendered, nothing is raised, a warning is given and the rendered report
\* is returned, the same text a successful write returns.
C5_WriteFailureStillReturns ==
    /\ Visited("persist") =>
          /\ pc = "done"
          /\ error = NoError
          /\ returned.has
          /\ returned = final_markdown
          /\ warning <=> ~out_file.has
          /\ out_file.has => out_file = final_markdown
    /\ warning => Visited("persist")

\* a run whose write failed and that returned a report with a data row
C5_Reached ==
    /\ pc = "done"
    /\ warning
    /\ ~out_file.has
    /\ returned.has
    /\ Len(DataRows(returned.text)) >= 1

\* C6 as stated: whenever the reconcile stage is reached the model client
\* is invoked exactly once.
C6_ExactlyOneCallWhenReached == Visited("analyst") => llm_calls = 1

\* C6, amended: the stages a run enters are, in this order and each once,
\* parse, reconcile, render, persist (a run that returns enters all
\* four); the model client is never invoked a second time, it is invoked
\* exactly once when the reconcile stage has built its client, and not at
\* all when building the client fails or reconcile is not reached.
C6_OrderAndSingleCall ==
    /\ IsPrefix(trace, Stages)
    /\ pc = "done" => trace = Stages
    /\ llm_calls <= 1
    /\ llm_calls = 1 <=>
          /\ Visited("analyst")
          /\ ~(error.at = "analyst" /\ error.exc \in {"ValueError", "ClientError"})

\* a run that went through the four stages and invoked the model once
C6_Reached == pc = "done" /\ trace = Stages /\ llm_calls = 1

\* C7: for a document that is neither a mapping nor a sequence both
\* extractions return the empty sequence without raising, so the parser
\* stage never fails and hands an empty plan and empty evidence to the
\* reconcile stage; a failure of such a run is one of the later stages.
C7_OtherDocumentDegrades ==
    (raw_logs \in OtherDocs) =>
        /\ extract_plan(raw_logs) = Ok(<<>>)
        /\ extract_evidence(raw_logs) = Ok(<<>>)
        /\ parsed_plan = <<>> /\ parsed_evidence = <<>>
        /\ error.at # "parser"
        /\ Visited("parser") => pc \in {"analyst", "reporter", "END", "done", "failed"}
        /\ pc = "done" => returned.has

\* a run on such a document that returned a report
C7_Reached == raw_logs \in OtherDocs /\ pc = "done" /\ returned.has

Unexpected(entry) ==
    entry.shape # "dict" \/ ~entry.hasName \/ ~entry.hasContent

\* the document with event k replaced by an empty mapping, which keeps the
\* positions of the other events
Without(logs, k) ==
    [logs EXCEPT !.events[k] = DictEvent(FALSE, "", FALSE, NoContent)]

\* C8: once the parser stage has run on a document, every event of
\* unexpected shape was skipped silently: the stage did not raise and the
\* plan and the evidence are those of the document without that event.
C8_UnexpectedEventsSkipped ==
    Visited("parser") =>
        \A k \in 1..Len(raw_logs.events) :
            Unexpected(raw_logs.events[k]) =>
                /\ error.at # "parser"
                /\ error.at # "parser" =>
                      /\ Ok(parsed_plan) = extract_plan(Without(raw_logs, k))
                      /\ Ok(parsed_evidence) = extract_evidence(Without(raw_logs, k))

\* the parser stage has run on a document holding such an event
C8_Reached ==
    /\ Visited("parser")
    /\ \E k \in 1..Len(raw_logs.events) : Unexpected(raw_logs.events[k])

FencedForms(json) ==
    { FenceJson \o <<"\n">> \o json \o <<"\n">> \o Fence,
      Fence \o <<"\n">> \o json \o <<"\n">> \o Fence }

\* C9: an answer that is a JSON array wrapped in code-fence markers gives
\* the classification list of the bare array, never the fallback.
C9_FencedParsesAsBare ==
    response.has =>
        \A d \in Denotations :
            (d[2].t = "list" /\ response.text \in FencedForms(d[1])) =>
                analysis_report = d[2]

\* the analysis has parsed a fenced JSON array
C9_Reached ==
    /\ response.has
    /\ \E d \in Denotations :
          d[2].t = "list" /\ response.text \in FencedForms(d[1])

\* C10: normalising a step of the parsed plan again leaves it unchanged
\* (every step is the normal form of a non-blank line of the plan text).
C10_NormaliseIdempotent ==
    \A i \in 1..Len(parsed_plan) : NormaliseLine(parsed_plan[i]) = parsed_plan[i]

\* a plan of two steps has been extracted
C10_Reached == Len(parsed_plan) = 2

====
